---- MODULE Spec2Model ----
(***************************************************************************)
(* A model of the device-routing core of vmm-device:                       *)
(*   - DeviceManager (src/src/device_manager.rs): resource allocation with *)
(*     rollback, registration, unregistration and read/write dispatch;     *)
(*   - PciBus (src/src/pci_bus.rs): the 0xCF8/0xCFC configuration          *)
(*     mechanism.                                                          *)
(* The resource allocator (crate vm_allocator) is an external collaborator *)
(* and is modelled from its documented contract.                           *)
(***************************************************************************)
EXTENDS Integers, Sequences, FiniteSets, TLC

\* ------------------------------------------------------------------ bounds
\* Each guest address space (port, memory) holds the addresses 0..MaxAddr-1.
MaxAddr == 2
\* A resource request asks for 1..MaxSize addresses.
MaxSize == 2
\* A register_device call carries at most MaxRes resource requests.
MaxRes == 2
\* The allocator owns the interrupt lines 0..MaxIrq-1.
MaxIrq == 1
\* A behaviour makes at most MaxRegs register_device calls.
MaxRegs == 2

\* ------------------------------------------------------------------ Option
None == <<>>
Some(x) == <<x>>
IsSome(o) == o # <<>>
Unwrap(o) == o[1]

\* ------------------------------------------------------------ device model
\* Device handles (Arc<Mutex<dyn Device>>) and the name each one reports.
Devs == {"d1", "d2", "d3"}
DevName(d) == IF d = "d3" THEN "B" ELSE "A"

IoTypes == {"Pio", "Mmio", "PhysicalMmio"}

IoResource(addr, size, res_type) ==
    [addr |-> addr, size |-> size, res_type |-> res_type]

\* The resource requests a caller can build.
Requests ==
    { IoResource(a, s, t) :
        a \in {None} \cup {Some(b) : b \in 0..(MaxAddr - 1)},
        s \in 1..MaxSize,
        t \in IoTypes }

RequestLists == UNION { [1..n -> Requests] : n \in 0..MaxRes }

\* Option<IrqResource>: no request, "any line", or a specific line.
IrqRequests == {None, Some(None), Some(Some(0))}

\* Range(base, size); ordering and equality are by base alone, so a range map
\* is a function from bases to [size, dev].
Range(base, size) == [base |-> base, size |-> size]

\* ------------------------------------------------------- allocator contract
\* Two ranges share an address.
Overlaps(r, q) == r.base < q.base + q.size /\ q.base < r.base + r.size

\* A placement the allocator may grant within one address space.
CanPlace(allocated, base, size) ==
    /\ base + size <= MaxAddr
    /\ \A q \in allocated : ~Overlaps(Range(base, size), q)

\* allocate_io_addresses(base, size) -> Option<base>: the outcomes as
\* [addr, al] with al the allocator afterwards.
allocate_io_addresses(al, base, size) ==
    IF CanPlace(al.pio, base, size)
    THEN {[addr |-> Some(base), al |-> [al EXCEPT !.pio = @ \cup {Range(base, size)}]]}
    ELSE {[addr |-> None, al |-> al]}

\* allocate_mmio_addresses(Option<base>, size) -> Option<base>: with no base
\* the allocator places the range itself, anywhere it fits.
allocate_mmio_addresses(al, addr, size) ==
    LET bases == IF IsSome(addr) THEN {Unwrap(addr)} ELSE 0..(MaxAddr - 1)
        fits  == {b \in bases : CanPlace(al.mmio, b, size)}
    IN  IF fits = {}
        THEN {[addr |-> None, al |-> al]}
        ELSE {[addr |-> Some(b), al |-> [al EXCEPT !.mmio = @ \cup {Range(b, size)}]] : b \in fits}

free_io_addresses(al, base, size) ==
    [al EXCEPT !.pio = @ \ {Range(base, size)}]

free_mmio_addresses(al, base, size) ==
    [al EXCEPT !.mmio = @ \ {Range(base, size)}]

\* allocate_irq() -> Option<line>: the lowest free line, or none when exhausted.
allocate_irq(al) ==
    LET free == (0..(MaxIrq - 1)) \ al.irq
    IN  IF free = {}
        THEN [irq |-> None, al |-> al]
        ELSE LET l == CHOOSE x \in free : \A y \in free : x <= y
             IN  [irq |-> Some(l), al |-> [al EXCEPT !.irq = @ \cup {l}]]

\* ------------------------------------------------------------------- state
VARIABLES
    resource,   \* DeviceManager.resource: the allocator [pio, mmio, irq]
    devices,    \* DeviceManager.devices: name -> DeviceDescriptor
    mmio_bus,   \* DeviceManager.mmio_bus: base -> [size, dev]
    pio_bus,    \* DeviceManager.pio_bus: base -> [size, dev]
    nreg,       \* the number of register_device calls made so far
    hist,       \* the observation of the last call: its inputs, its result,
                \* the device calls it made and the manager state it started
                \* from; op = "none" once the caller has consumed it
    config_address_reg, \* PciBus.config_address_reg, as four byte lanes
    pci_devices,        \* PciBus.devices: the children's config_regs
    panicked,   \* a PciBus call aborted on an arithmetic overflow check
    nwrites,    \* the number of PciBus write calls made so far
    bhist,      \* the observation of the last PciBus call
    pc,         \* for each caller thread, its position in read/write
    call,       \* for each caller thread, the call it is making
    dev_lock,   \* for each device handle, the thread holding its Mutex
    child_lock, \* for each PciBus child, the thread holding its Mutex
    poisoned,   \* the device Mutexes a thread aborted under
    ncalls      \* for each caller thread, the calls it has finished

mgr_vars == <<resource, devices, mmio_bus, pio_bus, nreg, hist>>
bus_vars == <<config_address_reg, pci_devices, panicked, nwrites, bhist>>
conc_vars == <<pc, call, dev_lock, child_lock, poisoned, ncalls>>
vars == <<mgr_vars, bus_vars, conc_vars>>

\* The manager state a call starts from.
Snapshot ==
    [resource |-> resource, devices |-> devices,
     mmio_bus |-> mmio_bus, pio_bus |-> pio_bus]

EmptyMap == [x \in {} |-> x]

NoCall ==
    [op |-> "none", dev |-> "none", irq |-> None, result |-> "none",
     nreq |-> 0, alloc_idx |-> 0, calls |-> <<>>,
     addr |-> 0, kind |-> "none", rt |-> FALSE, again |-> FALSE,
     pre |-> [resource |-> [pio |-> {}, mmio |-> {}, irq |-> {}],
              devices |-> EmptyMap, mmio_bus |-> EmptyMap, pio_bus |-> EmptyMap],
     pre_reg |-> [resource |-> [pio |-> {}, mmio |-> {}, irq |-> {}],
              devices |-> EmptyMap, mmio_bus |-> EmptyMap, pio_bus |-> EmptyMap]]

\* DeviceManager::new
MgrInit ==
    /\ resource = [pio |-> {}, mmio |-> {}, irq |-> {}]
    /\ devices = EmptyMap
    /\ mmio_bus = EmptyMap
    /\ pio_bus = EmptyMap
    /\ nreg = 0
    /\ hist = NoCall

\* --------------------------------------------------------- map primitives
\* BTreeMap::insert: a key equal to a present one (same base) keeps the old
\* key and replaces the value.
MapInsert(bus, base, size, dev) ==
    IF base \in DOMAIN bus
    THEN [bus EXCEPT ![base].dev = dev]
    ELSE [b \in DOMAIN bus \cup {base} |->
            IF b = base THEN [size |-> size, dev |-> dev] ELSE bus[b]]

\* BTreeMap::remove / HashMap::remove
MapRemove(m, k) == [x \in DOMAIN m \ {k} |-> m[x]]

\* ---------------------------------------------------------- free_resources
RECURSIVE free_resources(_, _)
free_resources(al, res) ==
    IF res = <<>> THEN al
    ELSE LET r == Head(res)
             al1 == IF r.res_type = "Pio"
                    THEN free_io_addresses(al, Unwrap(r.addr), r.size)
                    ELSE free_mmio_addresses(al, Unwrap(r.addr), r.size)
         IN  free_resources(al1, Tail(res))

\* ------------------------------------------------------ allocate_resources
\* A rollback that starts one resource late.
RollbackSliceLate(res, alloc_idx) == SubSeq(res, 2, alloc_idx)

\* The slice freed when the loop stopped with alloc_idx resources granted.
RollbackSlice(res, alloc_idx) == SubSeq(res, 1, alloc_idx)

\* The exit taken when a PortIO request carries no base: the early return.
NonePioExit(res, al, alloc_idx) ==
    [resource |-> res, al |-> al, result |-> "NonePIOAddress", alloc_idx |-> alloc_idx]

\* The exit taken after the loop: Ok when every request was granted, else
\* the granted prefix is freed and the call fails with Overlap.
LoopExit(res, al, alloc_idx) ==
    IF alloc_idx = Len(res)
    THEN [resource |-> res, al |-> al, result |-> "Ok", alloc_idx |-> alloc_idx]
    ELSE [resource |-> res,
          al |-> free_resources(al, RollbackSlice(res, alloc_idx)),
          result |-> "Overlap", alloc_idx |-> alloc_idx]

\* The loop from request i on (1-based), with i-1 requests granted so far:
\* the set of outcomes [resource, al, result, alloc_idx].
RECURSIVE AllocLoop(_, _, _)
AllocLoop(res, al, i) ==
    IF i > Len(res) THEN {LoopExit(res, al, i - 1)}
    ELSE LET r == res[i] IN
         IF r.res_type = "Pio" /\ ~IsSome(r.addr)
         THEN {NonePioExit(res, al, i - 1)}
         ELSE LET outs == IF r.res_type = "Pio"
                          THEN allocate_io_addresses(al, Unwrap(r.addr), r.size)
                          ELSE allocate_mmio_addresses(al, r.addr, r.size)
              IN  UNION { IF IsSome(o.addr)
                          THEN AllocLoop([res EXCEPT ![i].addr = o.addr], o.al, i + 1)
                          ELSE {LoopExit([res EXCEPT ![i].addr = None], o.al, i - 1)}
                          : o \in outs }

allocate_resources(al, res) == AllocLoop(res, al, 1)

\* ------------------------------------------------------- register_resource
\* A registration that fills the memory range map only.
RECURSIVE register_resource_mmio_only(_, _, _, _)
register_resource_mmio_only(pio, mmio, dev, res) ==
    IF res = <<>> THEN [pio_bus |-> pio, mmio_bus |-> mmio, result |-> "Ok"]
    ELSE LET r == Head(res) IN
         IF r.res_type = "Mmio"
         THEN register_resource_mmio_only(
                  pio, MapInsert(mmio, Unwrap(r.addr), r.size, dev), dev, Tail(res))
         ELSE register_resource_mmio_only(pio, mmio, dev, Tail(res))

\* The range maps after the loop over the granted resources, and its result;
\* an insert that finds the base present returns Overlap at once.
RECURSIVE register_resource(_, _, _, _)
register_resource(pio, mmio, dev, res) ==
    IF res = <<>> THEN [pio_bus |-> pio, mmio_bus |-> mmio, result |-> "Ok"]
    ELSE LET r == Head(res)
             base == Unwrap(r.addr)
         IN  CASE r.res_type = "Pio" ->
                    IF base \in DOMAIN pio
                    THEN [pio_bus |-> MapInsert(pio, base, r.size, dev),
                          mmio_bus |-> mmio, result |-> "Overlap"]
                    ELSE register_resource(MapInsert(pio, base, r.size, dev),
                                           mmio, dev, Tail(res))
               [] r.res_type = "Mmio" ->
                    IF base \in DOMAIN mmio
                    THEN [pio_bus |-> pio,
                          mmio_bus |-> MapInsert(mmio, base, r.size, dev),
                          result |-> "Overlap"]
                    ELSE register_resource(pio, MapInsert(mmio, base, r.size, dev),
                                           dev, Tail(res))
               [] OTHER -> register_resource(pio, mmio, dev, Tail(res))

\* ------------------------------------------------------------------ insert
\* DeviceManager::insert: the registry and the result.
insert(devs, desc) ==
    IF desc.name \in DOMAIN devs
    THEN [devices |-> devs, result |-> "Exist"]
    ELSE [devices |-> [n \in DOMAIN devs \cup {desc.name} |->
                          IF n = desc.name THEN desc ELSE devs[n]],
          result |-> "Ok"]

\* DeviceManager::device_descriptor (no parent bus is passed in this model).
device_descriptor(dev, res) ==
    [name |-> DevName(dev), device |-> dev, parent_bus |-> None, resource |-> res]

\* A call the manager makes on a device.
SetResourcesCall(dev, res, irq) ==
    [fn |-> "set_resources", dev |-> dev, res |-> res, irq |-> irq]

\* The call register_device makes on the manager's own insert.
InsertCall(name) == [fn |-> "insert", name |-> name]

\* --------------------------------------------------------- register_device
\* A finish that inserts the descriptor first and tells the device afterwards.
FinishRegisterInsertFirst(st, dev, res, interrupt) ==
    IF IsSome(interrupt) /\ IsSome(Unwrap(interrupt))
    THEN [st EXCEPT !.result = "AllocateIrq"]
    ELSE LET got == IF IsSome(interrupt)
                    THEN allocate_irq(st.resource)
                    ELSE [irq |-> None, al |-> st.resource]
             irqArg == IF IsSome(interrupt) THEN Some(got.irq) ELSE None
             ins == insert(st.devices, device_descriptor(dev, res))
         IN  [st EXCEPT !.resource = got.al,
                        !.calls = @ \o <<InsertCall(DevName(dev)),
                                         SetResourcesCall(dev, res, irqArg)>>,
                        !.devices = ins.devices,
                        !.result = ins.result]

\* A finish that gives the granted ranges back when the name is taken.
FinishRegisterRollback(st, dev, res, interrupt) ==
    IF IsSome(interrupt) /\ IsSome(Unwrap(interrupt))
    THEN [st EXCEPT !.result = "AllocateIrq"]
    ELSE LET got == IF IsSome(interrupt)
                    THEN allocate_irq(st.resource)
                    ELSE [irq |-> None, al |-> st.resource]
             irqArg == IF IsSome(interrupt) THEN Some(got.irq) ELSE None
             ins == insert(st.devices, device_descriptor(dev, res))
         IN  [st EXCEPT !.resource = IF ins.result = "Exist"
                                     THEN free_resources(got.al, res)
                                     ELSE got.al,
                        !.calls = @ \o <<SetResourcesCall(dev, res, irqArg),
                                         InsertCall(DevName(dev))>>,
                        !.devices = ins.devices,
                        !.result = ins.result]

\* The step after the range maps are filled: the interrupt, set_resources
\* and then the insertion of the descriptor.  st is the manager state so far.
FinishRegister(st, dev, res, interrupt) ==
    IF IsSome(interrupt) /\ IsSome(Unwrap(interrupt))
    THEN [st EXCEPT !.result = "AllocateIrq"]
    ELSE LET got == IF IsSome(interrupt)
                    THEN allocate_irq(st.resource)
                    ELSE [irq |-> None, al |-> st.resource]
             irqArg == IF IsSome(interrupt) THEN Some(got.irq) ELSE None
             ins == insert(st.devices, device_descriptor(dev, res))
         IN  [st EXCEPT !.resource = got.al,
                        !.calls = @ \o <<SetResourcesCall(dev, res, irqArg),
                                         InsertCall(DevName(dev))>>,
                        !.devices = ins.devices,
                        !.result = ins.result]

\* The outcomes of register_device(dev, None, req, interrupt) from manager
\* state s: [resource, devices, pio_bus, mmio_bus, result, calls, alloc_idx].
register_device(s, dev, req, interrupt) ==
    { LET st == [resource |-> a.al, devices |-> s.devices,
                 pio_bus |-> s.pio_bus, mmio_bus |-> s.mmio_bus,
                 result |-> a.result, calls |-> <<>>,
                 alloc_idx |-> a.alloc_idx]
      IN  IF a.result # "Ok" THEN st
          ELSE LET rr == register_resource(s.pio_bus, s.mmio_bus, dev, a.resource)
                   st2 == [st EXCEPT !.pio_bus = rr.pio_bus,
                                     !.mmio_bus = rr.mmio_bus,
                                     !.result = rr.result]
               IN  IF rr.result = "Overlap" THEN st2
                   ELSE FinishRegister(st2, dev, a.resource, interrupt)
      : a \in allocate_resources(s.resource, req) }

RegisterDevice ==
    /\ hist.op = "none"
    /\ nreg < MaxRegs
    /\ nreg' = nreg + 1
    /\ \E dev \in Devs, req \in RequestLists, interrupt \in IrqRequests :
      \E out \in register_device(Snapshot, dev, req, interrupt) :
        /\ resource' = out.resource
        /\ devices' = out.devices
        /\ pio_bus' = out.pio_bus
        /\ mmio_bus' = out.mmio_bus
        /\ hist' = [NoCall EXCEPT !.op = "register", !.dev = dev,
                       !.irq = interrupt, !.result = out.result,
                       !.nreq = Len(req), !.alloc_idx = out.alloc_idx,
                       !.calls = out.calls,
                       !.pre = Snapshot, !.pre_reg = Snapshot]
    /\ UNCHANGED <<bus_vars, conc_vars>>

\* ------------------------------------------------------- unregister_device
\* The range maps after the removal loop over a descriptor's resources.
RECURSIVE RemoveRanges(_, _, _)
RemoveRanges(pio, mmio, res) ==
    IF res = <<>> THEN [pio_bus |-> pio, mmio_bus |-> mmio]
    ELSE LET r == Head(res) IN
         IF ~IsSome(r.addr) THEN RemoveRanges(pio, mmio, Tail(res))
         ELSE CASE r.res_type = "Pio" ->
                     RemoveRanges(MapRemove(pio, Unwrap(r.addr)), mmio, Tail(res))
                [] r.res_type = "Mmio" ->
                     RemoveRanges(pio, MapRemove(mmio, Unwrap(r.addr)), Tail(res))
                [] OTHER -> RemoveRanges(pio, mmio, Tail(res))

\* A release that skips what has no range-map entry.
UnregisterFreesRouted(desc) ==
    SelectSeq(desc.resource, LAMBDA r : r.res_type # "PhysicalMmio")

\* The resources unregister_device hands to free_resources.
UnregisterFrees(desc) == desc.resource

\* An unregistration that reports success for a name it does not know.
unregister_device_lenient(s, dev) ==
    LET name == DevName(dev) IN
    IF name \in DOMAIN s.devices
    THEN LET desc == s.devices[name]
             maps == RemoveRanges(s.pio_bus, s.mmio_bus, desc.resource)
         IN  [resource |-> free_resources(s.resource, UnregisterFrees(desc)),
              devices |-> MapRemove(s.devices, name),
              pio_bus |-> maps.pio_bus, mmio_bus |-> maps.mmio_bus,
              result |-> "Ok"]
    ELSE [resource |-> s.resource, devices |-> s.devices,
          pio_bus |-> s.pio_bus, mmio_bus |-> s.mmio_bus,
          result |-> "Ok"]

\* unregister_device(dev) from manager state s.
unregister_device(s, dev) ==
    LET name == DevName(dev) IN
    IF name \in DOMAIN s.devices
    THEN LET desc == s.devices[name]
             maps == RemoveRanges(s.pio_bus, s.mmio_bus, desc.resource)
         IN  [resource |-> free_resources(s.resource, UnregisterFrees(desc)),
              devices |-> MapRemove(s.devices, name),
              pio_bus |-> maps.pio_bus, mmio_bus |-> maps.mmio_bus,
              result |-> "Ok"]
    ELSE [resource |-> s.resource, devices |-> s.devices,
          pio_bus |-> s.pio_bus, mmio_bus |-> s.mmio_bus,
          result |-> "NonExist"]

UnregisterDevice ==
    /\ hist.op \in {"none", "register"}
       \/ (hist.op = "unregister" /\ ~hist.again)
    /\ UNCHANGED <<nreg, bus_vars, conc_vars>>
    /\ \E dev \in Devs :
      LET out == unregister_device(Snapshot, dev)
          \* this call directly follows the successful registration of dev
          rt == hist.op = "register" /\ hist.result = "Ok" /\ hist.dev = dev
          \* this call directly follows a successful unregistration of dev
          again == hist.op = "unregister" /\ hist.result = "Ok" /\ hist.dev = dev
      IN  /\ resource' = out.resource
          /\ devices' = out.devices
          /\ pio_bus' = out.pio_bus
          /\ mmio_bus' = out.mmio_bus
          /\ hist' = [NoCall EXCEPT !.op = "unregister", !.dev = dev,
                         !.result = out.result, !.rt = rt, !.again = again,
                         !.irq = IF rt THEN hist.irq ELSE None,
                         !.pre = Snapshot,
                         !.pre_reg = IF rt THEN hist.pre ELSE Snapshot]

\* ---------------------------------------------------------------- dispatch
\* A search that walks the map forwards and so stops at the least base.
first_before_forward(s, addr, io_type) ==
    LET bus == CASE io_type = "Pio" -> s.pio_bus
                 [] io_type = "Mmio" -> s.mmio_bus
                 [] OTHER -> EmptyMap
        below == {b \in DOMAIN bus : b <= addr}
    IN  IF below = {} THEN None
        ELSE LET b == CHOOSE x \in below : \A y \in below : x <= y
             IN  Some([base |-> b, size |-> bus[b].size, dev |-> bus[b].dev])

\* A search that looks passthrough memory up in the memory range map.
first_before_passthrough(s, addr, io_type) ==
    LET bus == IF io_type = "Pio" THEN s.pio_bus ELSE s.mmio_bus
        below == {b \in DOMAIN bus : b <= addr}
    IN  IF below = {} THEN None
        ELSE LET b == CHOOSE x \in below : \A y \in below : y <= x
             IN  Some([base |-> b, size |-> bus[b].size, dev |-> bus[b].dev])

\* first_before: the entry of the kind's range map with the greatest base at
\* or below addr, as Option<[base, size, dev]>.
first_before(s, addr, io_type) ==
    LET bus == CASE io_type = "Pio" -> s.pio_bus
                 [] io_type = "Mmio" -> s.mmio_bus
                 [] OTHER -> EmptyMap
        below == {b \in DOMAIN bus : b <= addr}
    IN  IF below = {} THEN None
        ELSE LET b == CHOOSE x \in below : \A y \in below : y <= x
             IN  Some([base |-> b, size |-> bus[b].size, dev |-> bus[b].dev])

\* A bounds check that lets the address one past the range through.
InRangeInclusive(addr, start, len) == addr - start <= len

\* The bounds check of get_device on the entry found.
InRange(addr, start, len) == addr - start < len

\* get_device: Option<dev>.
get_device(s, addr, io_type) ==
    LET f == first_before(s, addr, io_type) IN
    IF IsSome(f) /\ InRange(addr, Unwrap(f).base, Unwrap(f).size)
    THEN Some(Unwrap(f).dev)
    ELSE None

\* DeviceManager::read / write: the result and the device calls made.
dispatch(s, fn, addr, data, io_type) ==
    LET d == get_device(s, addr, io_type) IN
    IF IsSome(d)
    THEN [result |-> "Ok",
          calls |-> <<[fn |-> fn, dev |-> Unwrap(d), addr |-> addr,
                       data |-> data, io_type |-> io_type]>>]
    ELSE [result |-> "NonExist", calls |-> <<>>]

\* Addresses the exit handler may present (one past the space included).
Addrs == 0..MaxAddr
Buffers == {<<1, 2>>}

Read ==
    /\ hist.op = "none"
    /\ \E addr \in Addrs, data \in Buffers, io_type \in IoTypes :
      LET out == dispatch(Snapshot, "read", addr, data, io_type) IN
      /\ hist' = [NoCall EXCEPT !.op = "read", !.addr = addr, !.kind = io_type,
                     !.result = out.result, !.calls = out.calls,
                     !.pre = Snapshot, !.pre_reg = Snapshot]
      /\ UNCHANGED <<resource, devices, mmio_bus, pio_bus, nreg, bus_vars, conc_vars>>

Write ==
    /\ hist.op = "none"
    /\ \E addr \in Addrs, data \in Buffers, io_type \in IoTypes :
      LET out == dispatch(Snapshot, "write", addr, data, io_type) IN
      /\ hist' = [NoCall EXCEPT !.op = "write", !.addr = addr, !.kind = io_type,
                     !.result = out.result, !.calls = out.calls,
                     !.pre = Snapshot, !.pre_reg = Snapshot]
      /\ UNCHANGED <<resource, devices, mmio_bus, pio_bus, nreg, bus_vars, conc_vars>>

\* The caller consumes the result of the last call; the manager is untouched.
Settle ==
    /\ hist.op # "none"
    /\ hist' = NoCall
    /\ UNCHANGED <<resource, devices, mmio_bus, pio_bus, nreg, bus_vars, conc_vars>>

\* ================================================================= PciBus
\* A u32 is held as its four byte lanes <<bits 7-0, 15-8, 23-16, 31-24>>.
\* The configuration ports: the address register and the data register.
PORT_CF8 == 3320
PORT_CFB == 3323
PORT_CFC == 3324
PORT_CFF == 3327
\* DummyPciDevice.config_regs has this many registers.
NUM_REGS == 64
\* A PciBus in this model holds at most MaxChildren children.
MaxChildren == 2
\* A behaviour makes at most MaxWrites PciBus write calls.
MaxWrites == 2

\* The byte values the guest writes: 0x00, 0x08 and 0x80.
Bytes == {0, 8, 128}

Zero32 == <<0, 0, 0, 0>>
Ones32 == <<255, 255, 255, 255>>

RECURSIVE And8(_, _)
And8(a, b) ==
    IF a = 0 \/ b = 0 THEN 0
    ELSE (a % 2) * (b % 2) + 2 * And8(a \div 2, b \div 2)
Or8(a, b) == a + b - And8(a, b)
Not8(a) == 255 - a

And32(x, y) == [i \in 1..4 |-> And8(x[i], y[i])]
Or32(x, y) == [i \in 1..4 |-> Or8(x[i], y[i])]
Not32(x) == [i \in 1..4 |-> Not8(x[i])]

\* x << bits for a shift by whole bytes below the width.
Shl32(x, bits) ==
    LET k == bits \div 8
    IN  [i \in 1..4 |-> IF i - k >= 1 THEN x[i - k] ELSE 0]

\* LittleEndian::read_u32 of the first four bytes.
read_u32(data) == <<data[1], data[2], data[3], data[4]>>

\* The low and the high half of a u32 as numbers.
Lo16(x) == x[1] + 256 * x[2]
Hi16(x) == x[3] + 256 * x[4]

\* parse_config_address
parse_config_address(config_address) ==
    [bus_number      |-> Hi16(config_address) % 256,
     device_number   |-> (Lo16(config_address) \div 2048) % 32,
     function_number |-> (Lo16(config_address) \div 256) % 8,
     register_number |-> (Lo16(config_address) \div 4) % 64]

\* config_address_reg & !0x8000_0000
ClearEnable(reg) == And32(reg, <<255, 255, 255, 127>>)

\* A gate that opens on any non-zero address register.
EnabledNonZero(reg) == reg # Zero32

\* (config_address_reg & 0x8000_0000) != 0
Enabled(reg) == And32(reg, <<0, 0, 0, 128>>) # Zero32

\* The shift set_config_address applies for a write of len bytes at offset.
LaneShift(len, offset) == IF len = 1 THEN offset * 8 ELSE offset * 16

\* A merge without the boundary and length checks: the first byte goes to
\* the lane of the offset.
set_config_address_unchecked(reg, offset, data) ==
    {[reg |-> [i \in 1..4 |-> IF i = offset + 1 THEN data[1] ELSE reg[i]],
      panicked |-> FALSE]}

\* set_config_address: the outcomes [reg, panicked].  A shift by the width or
\* more aborts under overflow checks and wraps the shift amount without.
set_config_address(reg, offset, data) ==
    IF offset + Len(data) > 4 \/ Len(data) \notin {1, 2, 4}
    THEN {[reg |-> reg, panicked |-> FALSE]}
    ELSE IF Len(data) = 4
    THEN {[reg |-> Or32(And32(reg, Not32(Ones32)), read_u32(data)),
           panicked |-> FALSE]}
    ELSE LET sh    == LaneShift(Len(data), offset)
             m0    == IF Len(data) = 1 THEN <<255, 0, 0, 0>> ELSE <<255, 255, 0, 0>>
             v0    == IF Len(data) = 1 THEN <<data[1], 0, 0, 0>>
                                       ELSE <<data[1], data[2], 0, 0>>
             mask  == Shl32(m0, sh % 32)
             value == Shl32(v0, sh % 32)
             done  == [reg |-> Or32(And32(reg, Not32(mask)), value),
                       panicked |-> FALSE]
         IN  IF sh >= 32
             THEN {done, [reg |-> reg, panicked |-> TRUE]}
             ELSE {done}

\* devices.get(device - 1): the outcomes [idx, panicked], idx = 0 for no
\* child.  device = 0 underflows: an abort under overflow checks, and an index
\* past every child without.
ChildAt(devs, device) ==
    IF device = 0
    THEN {[idx |-> 0, panicked |-> FALSE], [idx |-> 0, panicked |-> TRUE]}
    ELSE {[idx |-> IF device <= Len(devs) THEN device ELSE 0, panicked |-> FALSE]}

\* DummyPciDevice::config_register_read
config_register_read(regs, reg_idx) == regs[reg_idx]

\* DummyPciDevice::config_register_write:
\* r = r & (0xff << offset) | data[0], offset in bits.
config_register_write(regs, reg_idx, offset, data) ==
    LET r   == regs[reg_idx]
        sh  == IF offset = 0 THEN 1 ELSE IF offset = 1 THEN 2
               ELSE IF offset = 2 THEN 4 ELSE 8
        m   == 255 * sh
        low == Lo16(r)
        kept == <<And8(low % 256, m % 256), And8(low \div 256, m \div 256), 0, 0>>
    IN  [regs EXCEPT ![reg_idx] = Or32(kept, <<data[1], 0, 0, 0>>)]

\* The value PciBus::read selects: outcomes [value, panicked].
ReadValue(reg, devs, addr) ==
    IF addr >= PORT_CF8 /\ addr <= PORT_CFB
    THEN {[value |-> reg, panicked |-> FALSE]}
    ELSE IF addr >= PORT_CFC /\ addr <= PORT_CFF
    THEN LET p == parse_config_address(ClearEnable(reg))
         IN  { [value |-> IF c.idx = 0 THEN Ones32
                          ELSE config_register_read(devs[c.idx], p.register_number),
                panicked |-> c.panicked] : c \in ChildAt(devs, p.device_number) }
    ELSE {[value |-> Ones32, panicked |-> FALSE]}

\* A slice that always starts at lane 0 of the word.
ReadSliceFromZero(value, addr, len) ==
    IF ((addr - PORT_CF8) % 4) + len <= 4
    THEN [j \in 1..len |-> value[j]]
    ELSE [j \in 1..len |-> 255]

\* The bytes PciBus::read stores for a buffer of len bytes.
ReadSlice(value, addr, len) ==
    LET start == (addr - PORT_CF8) % 4
        end   == start + len
    IN  IF end <= 4
        THEN [j \in 1..len |-> value[start + j]]
        ELSE [j \in 1..len |-> 255]

\* PciBus::read (IoOps) and PciBus::config_address_read: outcomes
\* [data, panicked].
pci_read(reg, devs, addr, len) ==
    { [data |-> IF v.panicked THEN <<>> ELSE ReadSlice(v.value, addr, len),
       panicked |-> v.panicked] : v \in ReadValue(reg, devs, addr) }

\* A call PciBus makes on a child.
ConfigWriteCall(idx, reg_idx, offset, data) ==
    [fn |-> "config_register_write", idx |-> idx, reg_idx |-> reg_idx,
     offset |-> offset, data |-> data]

\* PciBus::write (IoOps) and PciBus::config_address_write: outcomes
\* [reg, devs, panicked, calls].
pci_write(reg, devs, addr, data) ==
    IF addr >= PORT_CF8 /\ addr <= PORT_CFB
    THEN { [reg |-> o.reg, devs |-> devs, panicked |-> o.panicked, calls |-> <<>>]
           : o \in set_config_address(reg, addr - PORT_CF8, data) }
    ELSE IF addr >= PORT_CFC /\ addr <= PORT_CFF
    THEN IF ~Enabled(reg)
         THEN {[reg |-> reg, devs |-> devs, panicked |-> FALSE, calls |-> <<>>]}
         ELSE LET p == parse_config_address(ClearEnable(reg))
              IN  { IF c.panicked \/ c.idx = 0
                    THEN [reg |-> reg, devs |-> devs, panicked |-> c.panicked,
                          calls |-> <<>>]
                    ELSE [reg |-> reg,
                          devs |-> [devs EXCEPT ![c.idx] =
                                      config_register_write(@, p.register_number,
                                                            addr - PORT_CFC, data)],
                          panicked |-> FALSE,
                          calls |-> <<ConfigWriteCall(c.idx, p.register_number,
                                                      addr - PORT_CFC, data)>>]
                    : c \in ChildAt(devs, p.device_number) }
    ELSE {[reg |-> reg, devs |-> devs, panicked |-> FALSE, calls |-> <<>>]}

\* The state of the bus a call starts from.
BusSnapshot == [reg |-> config_address_reg, devs |-> pci_devices]

NoBusCall ==
    [op |-> "none", addr |-> 0, data |-> <<>>, len |-> 0, out |-> <<>>,
     calls |-> <<>>, pre |-> [reg |-> Zero32, devs |-> <<>>]]

\* PciBus::new
BusInit ==
    /\ config_address_reg = Zero32
    /\ pci_devices = <<>>
    /\ panicked = FALSE
    /\ nwrites = 0
    /\ bhist = NoBusCall

\* The register files a child is inserted with: DummyPciDevice::new (all
\* zero), or register 0 preset to 0x1000_0000.
ChildRegs ==
    { [i \in 0..(NUM_REGS - 1) |-> IF i = 0 THEN r0 ELSE Zero32]
      : r0 \in {Zero32, <<0, 0, 0, 16>>} }

\* The ports a caller presents: the window and the port after it.
Ports == PORT_CF8..(PORT_CFF + 1)

\* The buffers a caller writes: every 1-, 2- and 4-byte buffer over Bytes with
\* bus number 0, and one buffer of each other length up to 5.
WriteBuffers ==
    [1..1 -> Bytes] \cup [1..2 -> Bytes]
    \cup { <<a, b, 0, c>> : a \in Bytes, b \in Bytes, c \in Bytes }
    \cup { <<8, 8, 8>>, <<8, 8, 8, 8, 8>> }

ReadLens == 1..5

\* PciBus::insert
PciInsert ==
    /\ ~panicked
    /\ bhist.op = "none"
    /\ Len(pci_devices) < MaxChildren
    /\ \E regs \in ChildRegs : pci_devices' = Append(pci_devices, regs)
    /\ UNCHANGED <<config_address_reg, panicked, nwrites, bhist, mgr_vars, conc_vars>>

PciWrite ==
    /\ ~panicked
    /\ bhist.op = "none"
    /\ nwrites < MaxWrites
    /\ nwrites' = nwrites + 1
    /\ \E addr \in Ports, data \in WriteBuffers :
         \E o \in pci_write(config_address_reg, pci_devices, addr, data) :
           /\ config_address_reg' = o.reg
           /\ pci_devices' = o.devs
           /\ panicked' = o.panicked
           /\ bhist' = [NoBusCall EXCEPT !.op = "write", !.addr = addr,
                           !.data = data, !.len = Len(data),
                           !.calls = o.calls, !.pre = BusSnapshot]
    /\ UNCHANGED <<mgr_vars, conc_vars>>

PciRead ==
    /\ ~panicked
    /\ bhist.op = "none"
    /\ \E addr \in Ports, len \in ReadLens :
         \E o \in pci_read(config_address_reg, pci_devices, addr, len) :
           /\ panicked' = o.panicked
           /\ bhist' = [NoBusCall EXCEPT !.op = "read", !.addr = addr,
                           !.len = len, !.out = o.data, !.pre = BusSnapshot]
    /\ UNCHANGED <<config_address_reg, pci_devices, nwrites, mgr_vars, conc_vars>>

\* The caller consumes the result of the last PciBus call.
PciSettle ==
    /\ ~panicked
    /\ bhist.op # "none"
    /\ bhist' = NoBusCall
    /\ UNCHANGED <<config_address_reg, pci_devices, panicked, nwrites, mgr_vars, conc_vars>>

\* ===================================================== concurrent dispatch
\* DeviceManager::read / write take &self: several threads may be inside them
\* at once, each locking the Mutex of the device it resolved.
Threads == {"t1", "t2"}
\* Each thread makes at most MaxCalls calls.
MaxCalls == 2
\* The handle under which the PciBus is registered with the manager.
BusDev == "d3"

NoThreadCall ==
    [fn |-> "none", dev |-> "none", port |-> 0, data |-> <<>>,
     child |-> 0, reg_idx |-> 0]

ConcInit ==
    /\ pc = [t \in Threads |-> "idle"]
    /\ call = [t \in Threads |-> NoThreadCall]
    /\ dev_lock = [d \in Devs |-> "free"]
    /\ child_lock = [i \in 1..MaxChildren |-> "free"]
    /\ poisoned = {}
    /\ ncalls = [t \in Threads |-> 0]

\* No thread has called yet: the set-up, which needs &mut access, is over
\* before the threads share the manager.
NotStarted == \A t \in Threads : pc[t] = "idle" /\ ncalls[t] = 0

\* register_device during set-up, as pci_bus_init does it: one port range, no
\* interrupt.
ConcRegister ==
    /\ NotStarted
    /\ nreg < MaxRegs
    /\ nreg' = nreg + 1
    /\ \E dev \in {"d1", BusDev}, base \in 0..(MaxAddr - 1) :
         \E out \in register_device(Snapshot, dev,
                                    <<IoResource(Some(base), 1, "Pio")>>, None) :
           /\ resource' = out.resource
           /\ devices' = out.devices
           /\ pio_bus' = out.pio_bus
           /\ mmio_bus' = out.mmio_bus
    /\ UNCHANGED <<hist, bus_vars, conc_vars>>

\* PciBus::insert during set-up.
ConcInsert == NotStarted /\ PciInsert

\* The port of the configuration window an access to the bus falls on, and the
\* buffers written there: an address with the enable bit and slot 1 or slot 0,
\* or one data byte.
ConcPorts == {PORT_CF8, PORT_CFC}
ConcBuffers(port) ==
    IF port = PORT_CF8 THEN {<<0, 8, 0, 128>>, <<0, 0, 0, 128>>} ELSE {<<8>>}

\* DeviceManager::read / write up to the lock: get_device, and Err(NonExist)
\* at once when no device covers the address.
ConcCall(t) ==
    /\ pc[t] = "idle"
    /\ ncalls[t] < MaxCalls
    /\ \E fn \in {"read", "write"}, addr \in Addrs, port \in ConcPorts :
         LET d == get_device(Snapshot, addr, "Pio") IN
         IF ~IsSome(d)
         THEN /\ ncalls' = [ncalls EXCEPT ![t] = @ + 1]
              /\ UNCHANGED <<pc, call>>
         ELSE /\ \E data \in (IF fn = "write" /\ Unwrap(d) = BusDev
                              THEN ConcBuffers(port) ELSE {<<0, 0, 0, 0>>}) :
                   call' = [call EXCEPT ![t] =
                              [NoThreadCall EXCEPT
                                 !.fn = fn, !.dev = Unwrap(d), !.data = data,
                                 !.port = IF Unwrap(d) = BusDev THEN port ELSE 0]]
              /\ pc' = [pc EXCEPT ![t] = "lock"]
              /\ UNCHANGED ncalls
    /\ UNCHANGED <<mgr_vars, bus_vars, dev_lock, child_lock, poisoned>>

\* dev.lock().expect(..): blocks while another thread holds the Mutex, aborts
\* when the Mutex is poisoned.
ConcLock(t) ==
    /\ pc[t] = "lock"
    /\ dev_lock[call[t].dev] = "free"
    /\ IF call[t].dev \in poisoned
       THEN /\ pc' = [pc EXCEPT ![t] = "aborted"]
            /\ UNCHANGED dev_lock
       ELSE /\ pc' = [pc EXCEPT ![t] = "in_device"]
            /\ dev_lock' = [dev_lock EXCEPT ![call[t].dev] = t]
    /\ UNCHANGED <<mgr_vars, bus_vars, call, child_lock, poisoned, ncalls>>

\* The device's read / write under its lock.  For the PciBus this is
\* PciBus::read / write up to the lock of the child; an abort in it unwinds
\* through the guard, which releases and poisons the Mutex.
ConcDevice(t) ==
    /\ pc[t] = "in_device"
    /\ LET c == call[t] IN
       IF c.dev # BusDev
       THEN /\ pc' = [pc EXCEPT ![t] = "unlock"]
            /\ UNCHANGED <<config_address_reg, call, dev_lock, poisoned>>
       ELSE IF c.port <= PORT_CFB
       THEN /\ pc' = [pc EXCEPT ![t] = "unlock"]
            /\ IF c.fn = "write"
               THEN \E o \in set_config_address(config_address_reg,
                                                c.port - PORT_CF8, c.data) :
                      config_address_reg' = o.reg
               ELSE UNCHANGED config_address_reg
            /\ UNCHANGED <<call, dev_lock, poisoned>>
       ELSE IF c.fn = "write" /\ ~Enabled(config_address_reg)
       THEN /\ pc' = [pc EXCEPT ![t] = "unlock"]
            /\ UNCHANGED <<config_address_reg, call, dev_lock, poisoned>>
       ELSE LET p == parse_config_address(ClearEnable(config_address_reg)) IN
            \E ch \in ChildAt(pci_devices, p.device_number) :
              /\ UNCHANGED config_address_reg
              /\ IF ch.panicked
                 THEN /\ pc' = [pc EXCEPT ![t] = "aborted"]
                      /\ dev_lock' = [dev_lock EXCEPT ![c.dev] = "free"]
                      /\ poisoned' = poisoned \cup {c.dev}
                      /\ UNCHANGED call
                 ELSE IF ch.idx = 0
                 THEN /\ pc' = [pc EXCEPT ![t] = "unlock"]
                      /\ UNCHANGED <<call, dev_lock, poisoned>>
                 ELSE /\ pc' = [pc EXCEPT ![t] = "lock_child"]
                      /\ call' = [call EXCEPT ![t].child = ch.idx,
                                              ![t].reg_idx = p.register_number]
                      /\ UNCHANGED <<dev_lock, poisoned>>
    /\ UNCHANGED <<mgr_vars, pci_devices, panicked, nwrites, bhist,
                   child_lock, ncalls>>

\* d.lock().expect(..) on the child, inside the bus.
ConcLockChild(t) ==
    /\ pc[t] = "lock_child"
    /\ child_lock[call[t].child] = "free"
    /\ child_lock' = [child_lock EXCEPT ![call[t].child] = t]
    /\ pc' = [pc EXCEPT ![t] = "in_child"]
    /\ UNCHANGED <<mgr_vars, bus_vars, call, dev_lock, poisoned, ncalls>>

\* config_register_read / config_register_write under the child's lock, which
\* is released at the end of the statement.
ConcChild(t) ==
    /\ pc[t] = "in_child"
    /\ LET c == call[t] IN
       IF c.fn = "write"
       THEN pci_devices' =
              [pci_devices EXCEPT ![c.child] =
                 config_register_write(@, c.reg_idx, c.port - PORT_CFC, c.data)]
       ELSE UNCHANGED pci_devices
    /\ child_lock' = [child_lock EXCEPT ![call[t].child] = "free"]
    /\ pc' = [pc EXCEPT ![t] = "unlock"]
    /\ UNCHANGED <<mgr_vars, config_address_reg, panicked, nwrites, bhist,
                   call, dev_lock, poisoned, ncalls>>

\* The guard on the device is dropped and read / write returns Ok.
ConcReturn(t) ==
    /\ pc[t] = "unlock"
    /\ dev_lock' = [dev_lock EXCEPT ![call[t].dev] = "free"]
    /\ pc' = [pc EXCEPT ![t] = "idle"]
    /\ call' = [call EXCEPT ![t] = NoThreadCall]
    /\ ncalls' = [ncalls EXCEPT ![t] = @ + 1]
    /\ UNCHANGED <<mgr_vars, bus_vars, child_lock, poisoned>>

\* A step of thread t.
ThreadStep(t) ==
    \/ ConcCall(t) \/ ConcLock(t) \/ ConcDevice(t)
    \/ ConcLockChild(t) \/ ConcChild(t) \/ ConcReturn(t)

\* ================================================================ fan-out
\* A bus filled with children, addressed through one device-slot after the
\* other.
\* PciBus.devices is a Vec without a limit: the bus is filled up to MaxFanout
\* children, the number of values of the 5-bit device-slot field.
MaxFanout == 32
Slots == 0..31

\* The register file of the child inserted at position n (1-based): register
\* 0 identifies the child.
FanoutRegs(n) ==
    [i \in 0..(NUM_REGS - 1) |-> IF i = 0 THEN <<n, 0, 0, 16>> ELSE Zero32]

\* The 4-byte buffer that sets the enable bit and device-slot s, register 0.
SelectSlot(s) == <<0, 8 * s, 0, 128>>

\* PciBus::insert while the bus is set up.
FanoutInsert ==
    /\ ~panicked
    /\ bhist.op = "none"
    /\ nwrites = 0
    /\ Len(pci_devices) < MaxFanout
    /\ pci_devices' = Append(pci_devices, FanoutRegs(Len(pci_devices) + 1))
    /\ UNCHANGED <<config_address_reg, panicked, nwrites, bhist, mgr_vars, conc_vars>>

\* PciBus::write of a slot selection to the address register.
FanoutSelect ==
    /\ ~panicked
    /\ bhist.op = "none"
    /\ nwrites = 0
    /\ nwrites' = nwrites + 1
    /\ \E s \in Slots :
         \E o \in pci_write(config_address_reg, pci_devices, PORT_CF8, SelectSlot(s)) :
           /\ config_address_reg' = o.reg
           /\ pci_devices' = o.devs
           /\ panicked' = o.panicked
           /\ bhist' = [NoBusCall EXCEPT !.op = "write", !.addr = PORT_CF8,
                           !.data = SelectSlot(s), !.len = 4,
                           !.calls = o.calls, !.pre = BusSnapshot]
    /\ UNCHANGED <<mgr_vars, conc_vars>>

\* PciBus::read of the whole data register.
FanoutRead ==
    /\ ~panicked
    /\ bhist.op = "none"
    /\ nwrites = 1
    /\ \E o \in pci_read(config_address_reg, pci_devices, PORT_CFC, 4) :
         /\ panicked' = o.panicked
         /\ bhist' = [NoBusCall EXCEPT !.op = "read", !.addr = PORT_CFC,
                         !.len = 4, !.out = o.data, !.pre = BusSnapshot]
    /\ UNCHANGED <<config_address_reg, pci_devices, nwrites, mgr_vars, conc_vars>>

\* PciBus::write of one byte to the data register.
FanoutWrite ==
    /\ ~panicked
    /\ bhist.op = "none"
    /\ nwrites = 1
    /\ nwrites' = nwrites + 1
    /\ \E o \in pci_write(config_address_reg, pci_devices, PORT_CFC, <<8>>) :
         /\ config_address_reg' = o.reg
         /\ pci_devices' = o.devs
         /\ panicked' = o.panicked
         /\ bhist' = [NoBusCall EXCEPT !.op = "write", !.addr = PORT_CFC,
                         !.data = <<8>>, !.len = 1,
                         !.calls = o.calls, !.pre = BusSnapshot]
    /\ UNCHANGED <<mgr_vars, conc_vars>>

\* ========================================================== specifications
Init == MgrInit /\ BusInit /\ ConcInit

\* The device manager.
Next == RegisterDevice \/ UnregisterDevice \/ Read \/ Write \/ Settle

Spec == Init /\ [][Next]_vars

\* The configuration bus.
BusNext == PciInsert \/ PciWrite \/ PciRead \/ PciSettle

BusSpec == Init /\ [][BusNext]_vars

\* The configuration bus filled with children.
FanoutNext ==
    FanoutInsert \/ FanoutSelect \/ FanoutRead \/ FanoutWrite \/ PciSettle

FanoutSpec == Init /\ [][FanoutNext]_vars

\* Concurrent dispatch after a set-up.
ConcNext ==
    \/ ConcRegister
    \/ ConcInsert
    \/ \E t \in Threads : ConcCall(t)
    \/ \E t \in Threads : ConcLock(t)
    \/ \E t \in Threads : ConcDevice(t)
    \/ \E t \in Threads : ConcLockChild(t)
    \/ \E t \in Threads : ConcChild(t)
    \/ \E t \in Threads : ConcReturn(t)

ConcSpec == Init /\ [][ConcNext]_vars

\* Every thread that can take a step eventually takes one: the scheduler runs
\* each thread, and a thread runs until it blocks on a Mutex.
FairConcSpec == ConcSpec /\ \A t \in Threads : WF_vars(ThreadStep(t))
\* ================================================================== claims
\* The range map of a kind in manager state s.
BusOf(s, io_type) ==
    CASE io_type = "Pio" -> s.pio_bus
      [] io_type = "Mmio" -> s.mmio_bus
      [] OTHER -> EmptyMap

\* The last call was a register_device whose allocation loop was refused at
\* request alloc_idx + 1 after at least one grant.
RefusedAfterGrant ==
    /\ hist.op = "register"
    /\ hist.result = "Overlap"
    /\ hist.alloc_idx >= 1
    /\ hist.alloc_idx < hist.nreq

\* C1: when the allocator refuses the k-th request of a register_device call
\* after granting k-1 >= 1 earlier ones, the call returns Overlap and the
\* allocator, the name registry and both range maps equal their values before
\* the call.
C1_RollbackOnRefusal ==
    (hist.op = "register" /\ hist.alloc_idx >= 1 /\ hist.alloc_idx < hist.nreq
        /\ hist.result # "NonePIOAddress")
    => /\ hist.result = "Overlap"
       /\ Snapshot = hist.pre

\* A refusal after a grant, from a manager that already holds allocations.
C1_Witness ==
    /\ RefusedAfterGrant
    /\ hist.pre.resource.pio # {}
    /\ hist.pre.resource.mmio # {}

\* The resources of the descriptor the last unregister_device removed.
Removed == hist.pre.devices[DevName(hist.dev)].resource

\* C2: a successful register_device(d) directly followed by
\* unregister_device(d) leaves the port and memory allocations as they were
\* before the register call, and no entry for d's resources in the range maps
\* or the name registry.
C2_RegisterUnregisterRoundTrip ==
    (hist.op = "unregister" /\ hist.rt)
    => /\ hist.result = "Ok"
       /\ resource.pio = hist.pre_reg.resource.pio
       /\ resource.mmio = hist.pre_reg.resource.mmio
       /\ DevName(hist.dev) \notin DOMAIN devices
       /\ \A i \in 1..Len(Removed) :
            /\ Removed[i].res_type = "Pio"
                 => Unwrap(Removed[i].addr) \notin DOMAIN pio_bus
            /\ Removed[i].res_type # "Pio"
                 => Unwrap(Removed[i].addr) \notin DOMAIN mmio_bus
       /\ pio_bus = hist.pre_reg.pio_bus
       /\ mmio_bus = hist.pre_reg.mmio_bus

\* A round trip of a device with a passthrough and a routed resource, from a
\* manager that already holds allocations.
C2_Witness ==
    /\ hist.op = "unregister" /\ hist.rt
    /\ \E i \in 1..Len(Removed) : Removed[i].res_type = "PhysicalMmio"
    /\ \E i \in 1..Len(Removed) : Removed[i].res_type = "Pio"
    /\ hist.pre_reg.resource.mmio # {}
    /\ hist.pre_reg.pio_bus # EmptyMap

\* The one call a dispatch of the last read/write makes on device d.
ForwardedTo(d) ==
    /\ hist.result = "Ok"
    /\ Len(hist.calls) = 1
    /\ hist.calls[1].fn = hist.op
    /\ hist.calls[1].dev = d
    /\ hist.calls[1].addr = hist.addr
    /\ hist.calls[1].io_type = hist.kind

\* The registered PortIO/MemoryIO ranges are pairwise disjoint within a kind.
RegisteredDisjoint ==
    \A n1 \in DOMAIN devices, n2 \in DOMAIN devices :
      \A i \in 1..Len(devices[n1].resource), j \in 1..Len(devices[n2].resource) :
        LET r == devices[n1].resource[i]
            q == devices[n2].resource[j]
        IN  (r.res_type = q.res_type /\ r.res_type \in {"Pio", "Mmio"}
               /\ (n1 # n2 \/ i # j))
            => ~Overlaps(Range(Unwrap(r.addr), r.size), Range(Unwrap(q.addr), q.size))

\* The registered resource of the dispatched kind that covers the address.
Covers(r) ==
    /\ r.res_type = hist.kind
    /\ r.res_type \in {"Pio", "Mmio"}
    /\ Unwrap(r.addr) <= hist.addr
    /\ hist.addr < Unwrap(r.addr) + r.size

\* C3: a read or write at an address inside a registered PortIO/MemoryIO
\* range of its kind makes exactly one call, on the device owning that range,
\* with the absolute address, and returns success.
C3_DispatchReachesOwner ==
    (hist.op \in {"read", "write"} /\ RegisteredDisjoint)
    => \A n \in DOMAIN devices :
         \A i \in 1..Len(devices[n].resource) :
           Covers(devices[n].resource[i]) => ForwardedTo(devices[n].device)

\* A dispatch into the second of two ranges of one kind owned by two
\* registered devices, at an address past the range's base.
C3_Witness ==
    /\ hist.op = "write"
    /\ RegisteredDisjoint
    /\ Cardinality(DOMAIN devices) = 2
    /\ \E n \in DOMAIN devices, m \in DOMAIN devices :
         /\ n # m
         /\ \E i \in 1..Len(devices[n].resource), j \in 1..Len(devices[m].resource) :
              /\ Covers(devices[n].resource[i])
              /\ devices[m].resource[j].res_type = hist.kind
              /\ Unwrap(devices[m].resource[j].addr) < hist.addr
         /\ ForwardedTo(devices[n].device)

\* The bases of the dispatched kind at or below the dispatched address.
BasesBelow == {b \in DOMAIN BusOf(Snapshot, hist.kind) : b <= hist.addr}
GreatestBelow == CHOOSE b \in BasesBelow : \A c \in BasesBelow : c <= b

\* C4: read/write selects the range of its kind with the greatest base at or
\* below the address; it returns NonExist without calling a device when there
\* is none or the address is at or past base + size, and succeeds otherwise.
C4_PredecessorAndBounds ==
    hist.op \in {"read", "write"}
    => IF BasesBelow = {}
          \/ hist.addr >= GreatestBelow + BusOf(Snapshot, hist.kind)[GreatestBelow].size
       THEN hist.result = "NonExist" /\ hist.calls = <<>>
       ELSE ForwardedTo(BusOf(Snapshot, hist.kind)[GreatestBelow].dev)

\* A read at exactly base + size of the selected range.
C4_Witness ==
    /\ hist.op = "read"
    /\ BasesBelow # {}
    /\ hist.addr = GreatestBelow + BusOf(Snapshot, hist.kind)[GreatestBelow].size
    /\ hist.result = "NonExist"

\* The last call registered a second device under a name already registered.
SecondOfName ==
    /\ hist.op = "register"
    /\ DevName(hist.dev) \in DOMAIN hist.pre.devices
    /\ hist.pre.devices[DevName(hist.dev)].device # hist.dev

\* Every address of the routed ranges of descriptor desc dispatches to its
\* device in manager state s.
Reachable(s, desc) ==
    \A i \in 1..Len(desc.resource) :
      LET r == desc.resource[i] IN
      r.res_type \in {"Pio", "Mmio"}
      => \A a \in Unwrap(r.addr)..(Unwrap(r.addr) + r.size - 1) :
           get_device(s, a, r.res_type) = Some(desc.device)

\* C5: registering a second device under a registered name returns Exist, and
\* the registry still maps the name to the first device's descriptor, whose
\* ranges still dispatch to the first device.
C5_DuplicateNameExist ==
    SecondOfName
    => /\ hist.result = "Exist"
       /\ DevName(hist.dev) \in DOMAIN devices
       /\ devices[DevName(hist.dev)] = hist.pre.devices[DevName(hist.dev)]
       /\ Reachable(Snapshot, devices[DevName(hist.dev)])

\* C6: a register_device call that asks for a specific interrupt line and
\* fails with AllocateIrq leaves the allocator and both range maps as they
\* were before the call.
C6_SpecificIrqRollsBack ==
    (hist.op = "register" /\ IsSome(hist.irq) /\ IsSome(Unwrap(hist.irq))
        /\ hist.result = "AllocateIrq")
    => /\ resource = hist.pre.resource
       /\ pio_bus = hist.pre.pio_bus
       /\ mmio_bus = hist.pre.mmio_bus

\* C7: a register_device call that fails with NonePIOAddress at position k
\* has freed every range granted for positions 0..k-1, so the allocator equals
\* its state before the call.
C7_NonePioRollsBack ==
    (hist.op = "register" /\ hist.result = "NonePIOAddress")
    => resource = hist.pre.resource

\* C8: the interrupt line a successful register_device obtained for an "any
\* line" request is back in the allocator after the matching
\* unregister_device.
C8_IrqReturnedOnUnregister ==
    (hist.op = "unregister" /\ hist.rt /\ hist.irq = Some(None))
    => resource.irq = hist.pre_reg.resource.irq

\* The address register with byte lanes o..o+n-1 replaced by the n bytes.
MergeLanes(old, o, data) ==
    [i \in 1..4 |-> IF i - 1 >= o /\ i - 1 < o + Len(data)
                    THEN data[i - o] ELSE old[i]]

\* C9: an address-register write of n bytes (n in {1,2,4}) at byte offset o
\* with o + n <= 4 that returns has replaced exactly lanes o..o+n-1 and kept
\* the others, and a following 4-byte read at 0xCF8 returns that value.
C9_AddressWriteMergesLanes ==
    (bhist.op = "write" /\ bhist.addr >= PORT_CF8 /\ bhist.addr <= PORT_CFB
        /\ bhist.len \in {1, 2, 4} /\ (bhist.addr - PORT_CF8) + bhist.len <= 4
        /\ ~panicked)
    => /\ config_address_reg =
            MergeLanes(bhist.pre.reg, bhist.addr - PORT_CF8, bhist.data)
       /\ pci_read(config_address_reg, pci_devices, PORT_CF8, 4) =
            {[data |-> MergeLanes(bhist.pre.reg, bhist.addr - PORT_CF8, bhist.data),
              panicked |-> FALSE]}

\* The last call was a data-register write with the enable bit clear.
GatedWrite ==
    /\ bhist.op = "write"
    /\ bhist.addr >= PORT_CFC /\ bhist.addr <= PORT_CFF
    /\ bhist.pre.reg[4] < 128

\* C10: with bit 31 of the address register clear, a data-register write
\* calls no child's config_register_write and changes nothing: a read of the
\* data register returns what it returned before the write.
C10_EnableGate ==
    GatedWrite
    => /\ bhist.calls = <<>>
       /\ ~panicked
       /\ config_address_reg = bhist.pre.reg
       /\ pci_devices = bhist.pre.devs
       /\ \A a \in PORT_CFC..PORT_CFF :
            \A n \in {1, 4 - (a - PORT_CFC)} :
              pci_read(config_address_reg, pci_devices, a, n) =
                pci_read(bhist.pre.reg, bhist.pre.devs, a, n)

\* A gated write while the address register selects a child that is present.
C10_Witness ==
    /\ GatedWrite
    /\ parse_config_address(bhist.pre.reg).device_number >= 1
    /\ parse_config_address(bhist.pre.reg).device_number <= Len(bhist.pre.devs)
    /\ bhist.data[1] # 0

\* The device-slot field (bits 15-11) and the register index (bits 7-2) of an
\* address register held as byte lanes.
SlotOf(reg) == (reg[2] \div 8) % 32
RegIndexOf(reg) == reg[1] \div 4

\* The last call was a data-register read that stays within the 4-byte word.
DataReadInWord ==
    /\ bhist.op = "read"
    /\ bhist.addr >= PORT_CFC /\ bhist.addr <= PORT_CFF
    /\ (bhist.addr - PORT_CFC) + bhist.len <= 4

\* A child exists at index slot - 1 for the address register the call saw.
ChildSelected ==
    /\ SlotOf(bhist.pre.reg) >= 1
    /\ SlotOf(bhist.pre.reg) <= Len(bhist.pre.devs)

\* C11: a data-register read of n bytes at byte offset o (o + n <= 4), with
\* the address register selecting slot s >= 1 and a child present at index
\* s - 1, returns bytes o..o+n-1 of that child's register whose index is bits
\* 7-2 of the address register.
C11_DataReadReturnsLanes ==
    (DataReadInWord /\ ChildSelected)
    => /\ ~panicked
       /\ bhist.out =
            [j \in 1..bhist.len |->
               bhist.pre.devs[SlotOf(bhist.pre.reg)][RegIndexOf(bhist.pre.reg)]
                    [(bhist.addr - PORT_CFC) + j]]

\* A 2-byte read at 0xCFE of register 0 = 0x1000_0000 of the child at slot 1,
\* while a second child holds another value in that register.
C11_Witness ==
    /\ DataReadInWord /\ ChildSelected
    /\ bhist.addr = PORT_CFC + 2 /\ bhist.len = 2
    /\ bhist.out = <<0, 16>>
    /\ Len(bhist.pre.devs) = 2
    /\ bhist.pre.devs[2][0] # bhist.pre.devs[1][0]

\* C12: for every address register value and every child list, a
\* data-register read within the word completes and returns 0xFF bytes
\* whenever no child exists at index slot - 1, slot 0 included.
C12_NoChildReadsAllOnes ==
    (DataReadInWord /\ ~ChildSelected)
    => /\ ~panicked
       /\ bhist.out = [j \in 1..bhist.len |-> 255]

\* C13: a read of the address or the data register whose byte range extends
\* past the 4-byte word fills the whole buffer with 0xFF, whatever the address
\* register and the children hold.
C13_PastBoundaryAllOnes ==
    (bhist.op = "read" /\ bhist.addr >= PORT_CF8 /\ bhist.addr <= PORT_CFF
        /\ ((bhist.addr - PORT_CF8) % 4) + bhist.len > 4)
    => /\ ~panicked
       /\ bhist.out = [j \in 1..bhist.len |-> 255]

\* C14: with the enable bit set, a data-register write at port p is forwarded
\* exactly once, to the child at index slot - 1, with the register index, the
\* byte offset p - 0xCFC and the data, and no other child changes; with no
\* child at that index (slot 0 included) the write completes and changes
\* nothing.
C14_EnabledWriteForwardedOnce ==
    (bhist.op = "write" /\ bhist.addr >= PORT_CFC /\ bhist.addr <= PORT_CFF
        /\ bhist.pre.reg[4] >= 128)
    => /\ ~panicked
       /\ config_address_reg = bhist.pre.reg
       /\ Len(pci_devices) = Len(bhist.pre.devs)
       /\ IF ChildSelected
          THEN /\ bhist.calls =
                    <<ConfigWriteCall(SlotOf(bhist.pre.reg),
                                      RegIndexOf(bhist.pre.reg),
                                      bhist.addr - PORT_CFC, bhist.data)>>
               /\ \A i \in 1..Len(pci_devices) :
                    i # SlotOf(bhist.pre.reg) => pci_devices[i] = bhist.pre.devs[i]
          ELSE /\ bhist.calls = <<>>
               /\ pci_devices = bhist.pre.devs

\* The passthrough resources of the registered descriptors, as ranges.
PassthroughRanges ==
    UNION { { Range(Unwrap(devices[n].resource[i].addr), devices[n].resource[i].size)
              : i \in { j \in 1..Len(devices[n].resource) :
                          devices[n].resource[j].res_type = "PhysicalMmio" } }
            : n \in DOMAIN devices }

\* C15: in every reachable manager state no range-map entry lies on the range
\* of a registered PassthroughMemoryIO resource, a read or write of kind
\* PassthroughMemoryIO returns NonExist without calling a device, and the
\* range of the resource is reserved in the allocator while its device is
\* registered.
C15_PassthroughReservedNotRouted ==
    /\ \A r \in PassthroughRanges :
         /\ r \in resource.mmio
         /\ \A b \in DOMAIN mmio_bus :
              ~Overlaps(r, Range(b, mmio_bus[b].size))
    /\ (hist.op \in {"read", "write"} /\ hist.kind = "PhysicalMmio")
         => (hist.result = "NonExist" /\ hist.calls = <<>>)

\* A passthrough read at an address inside a registered passthrough range,
\* while the memory range map routes another address.
C15_Witness ==
    /\ hist.op = "read" /\ hist.kind = "PhysicalMmio"
    /\ \E r \in PassthroughRanges : r.base <= hist.addr /\ hist.addr < r.base + r.size
    /\ mmio_bus # EmptyMap

\* C16: unregister_device(d) for a device whose name has no descriptor returns
\* NonExist and leaves the registry, both range maps and the allocator
\* unchanged; so does a second unregister_device(d) right after a successful
\* one.
C16_UnknownUnregisterIsNoOp ==
    /\ (hist.op = "unregister" /\ DevName(hist.dev) \notin DOMAIN hist.pre.devices)
         => (hist.result = "NonExist" /\ Snapshot = hist.pre)
    /\ (hist.op = "unregister" /\ hist.again)
         => (hist.result = "NonExist" /\ Snapshot = hist.pre)

\* A second unregistration right after a successful one, in a manager that
\* still holds another device with allocations and routes.
C16_Witness ==
    /\ hist.op = "unregister" /\ hist.again
    /\ hist.result = "NonExist"
    /\ devices # EmptyMap
    /\ resource.pio # {}
    /\ pio_bus # EmptyMap

\* The positions in the calls of the last register_device of the calls to fn.
CallsOf(fn) == {i \in 1..Len(hist.calls) : hist.calls[i].fn = fn}

\* The last call was a register_device that returned success.
Registered == hist.op = "register" /\ hist.result = "Ok"

\* The descriptor the last successful register_device inserted.
Inserted == devices[DevName(hist.dev)]

\* C17: in every register_device call that returns success, set_resources is
\* invoked exactly once, on the device, with the final resource list (every
\* base concrete and reserved) and the interrupt the allocator returned, and
\* before the descriptor is inserted.
C17_SetResourcesOnceBeforeInsert ==
    Registered
    => /\ Cardinality(CallsOf("set_resources")) = 1
       /\ Cardinality(CallsOf("insert")) = 1
       /\ \A i \in CallsOf("set_resources") :
            /\ \A j \in CallsOf("insert") : i < j
            /\ hist.calls[i].dev = hist.dev
            /\ DevName(hist.dev) \in DOMAIN devices
            /\ Inserted.device = hist.dev
            /\ hist.calls[i].res = Inserted.resource
            /\ Len(hist.calls[i].res) = hist.nreq
            /\ \A k \in 1..Len(hist.calls[i].res) :
                 LET r == hist.calls[i].res[k] IN
                 /\ IsSome(r.addr)
                 /\ Range(Unwrap(r.addr), r.size) \in
                      (IF r.res_type = "Pio" THEN resource.pio ELSE resource.mmio)
            /\ hist.irq = None => hist.calls[i].irq = None
            /\ hist.irq # None =>
                 /\ IsSome(hist.calls[i].irq)
                 /\ IF IsSome(Unwrap(hist.calls[i].irq))
                    THEN resource.irq =
                           hist.pre.resource.irq \cup {Unwrap(Unwrap(hist.calls[i].irq))}
                    ELSE resource.irq = hist.pre.resource.irq

\* A successful registration with two requests, one of them placed by the
\* allocator, and an interrupt line obtained.
C17_Witness ==
    /\ Registered
    /\ hist.nreq = 2
    /\ hist.irq = Some(None)
    /\ resource.irq # hist.pre.resource.irq
    /\ \E k \in 1..2 : Inserted.resource[k].res_type = "Mmio"
    /\ \E k \in 1..2 : Inserted.resource[k].res_type = "Pio"

\* C18: in every reachable manager state every resource of every registered
\* descriptor has a concrete base, and each PortIO/MemoryIO resource has
\* exactly one entry in the range map of its kind: at its base, with its
\* size, routing to the descriptor's device, and no other entry on its range.
C18_DescriptorsRouted ==
    \A n \in DOMAIN devices :
      \A i \in 1..Len(devices[n].resource) :
        LET r == devices[n].resource[i]
            bus == BusOf(Snapshot, r.res_type)
        IN  /\ IsSome(r.addr)
            /\ r.res_type \in {"Pio", "Mmio"} =>
                 /\ Unwrap(r.addr) \in DOMAIN bus
                 /\ bus[Unwrap(r.addr)] = [size |-> r.size, dev |-> devices[n].device]
                 /\ \A b \in DOMAIN bus :
                      Overlaps(Range(b, bus[b].size), Range(Unwrap(r.addr), r.size))
                        => b = Unwrap(r.addr)

\* Two registered devices, each with a routed resource, and entries in both
\* range maps.
C18_Witness ==
    /\ Cardinality(DOMAIN devices) = 2
    /\ \A n \in DOMAIN devices :
         \E i \in 1..Len(devices[n].resource) :
           devices[n].resource[i].res_type \in {"Pio", "Mmio"}
    /\ pio_bus # EmptyMap
    /\ mmio_bus # EmptyMap

\* C19: whenever register_device called with an "any line" interrupt request
\* returns success, the interrupt handed to set_resources is a concrete line
\* the allocator granted in this call, and no line granted before it.
C19_AnyLineIsConcrete ==
    (Registered /\ hist.irq = Some(None))
    => \A i \in CallsOf("set_resources") :
         /\ IsSome(hist.calls[i].irq)
         /\ IsSome(Unwrap(hist.calls[i].irq))
         /\ Unwrap(Unwrap(hist.calls[i].irq)) \in resource.irq
         /\ Unwrap(Unwrap(hist.calls[i].irq)) \notin hist.pre.resource.irq

\* Thread t is executing inside the read or write of the device it resolved.
Inside(t) == pc[t] \in {"in_device", "lock_child", "in_child", "unlock"}

\* At most one thread at a time is inside a given device.
OnePerDevice ==
    \A t \in Threads, u \in Threads :
      (t # u /\ Inside(t) /\ Inside(u)) => call[t].dev # call[u].dev

\* C20: under any interleaving of concurrent read/write calls at most one
\* call at a time is inside a given device's read or write, and every call
\* eventually returns, also when the target is the configuration bus that in
\* turn locks a child.
C20_SerializedAndReturns ==
    /\ []OnePerDevice
    /\ \A t \in Threads : (pc[t] # "idle") ~> (pc[t] = "idle")

\* Some address-register value with the enable bit set reaches child i
\* (1-based position in PciBus.devices): a data-register read returns its
\* register and a data-register write is forwarded to it.
Served(i) ==
    \E s \in Slots :
      /\ pci_read(SelectSlot(s), pci_devices, PORT_CFC, 4) =
           {[data |-> pci_devices[i][0], panicked |-> FALSE]}
      /\ \A o \in pci_write(SelectSlot(s), pci_devices, PORT_CFC, <<8>>) :
           o.calls = <<ConfigWriteCall(i, 0, 0, <<8>>)>>

\* C21: the configuration bus serves up to 32 children: for every child at
\* index i with 0 <= i < 32 some address-register value (enable set, a 5-bit
\* device-slot) makes a data-register read return that child's register and a
\* data-register write reach that child.
C21_ServesThirtyTwoChildren ==
    \A i \in 1..Len(pci_devices) : i <= 32 => Served(i)

\* The range of a granted resource is reserved in allocator al.
Reserved(al, r) ==
    Range(Unwrap(r.addr), r.size) \in
      (IF r.res_type = "Pio" THEN al.pio ELSE al.mmio)

\* C22: when register_device fails with Exist, set_resources has been invoked
\* on the device, once and before the insert, with the ranges this call
\* allocated, and those ranges remain allocated: nothing the allocator held
\* before or granted in the call is given back, and the registry is as before.
C22_ExistKeepsAllocations ==
    (hist.op = "register" /\ hist.result = "Exist")
    => /\ Cardinality(CallsOf("set_resources")) = 1
       /\ \A i \in CallsOf("set_resources") :
            /\ \A j \in CallsOf("insert") : i < j
            /\ hist.calls[i].dev = hist.dev
            /\ Len(hist.calls[i].res) = hist.nreq
            /\ \A k \in 1..Len(hist.calls[i].res) :
                 /\ IsSome(hist.calls[i].res[k].addr)
                 /\ Reserved(resource, hist.calls[i].res[k])
                 /\ ~Reserved(hist.pre.resource, hist.calls[i].res[k])
       /\ hist.pre.resource.pio \subseteq resource.pio
       /\ hist.pre.resource.mmio \subseteq resource.mmio
       /\ devices = hist.pre.devices

\* A registration that fails with Exist after two ranges were granted to it.
C22_Witness ==
    /\ hist.op = "register" /\ hist.result = "Exist"
    /\ hist.nreq = 2
    /\ resource # hist.pre.resource

\* C23: an address-register write whose byte range straddles the 4-byte
\* boundary, or whose length is not 1, 2 or 4, leaves the address register
\* and every child's registers unchanged.
C23_IgnoredAddressWrites ==
    (bhist.op = "write" /\ bhist.addr >= PORT_CF8 /\ bhist.addr <= PORT_CFB
        /\ ((bhist.addr - PORT_CF8) + bhist.len > 4 \/ bhist.len \notin {1, 2, 4}))
    => /\ ~panicked
       /\ bhist.calls = <<>>
       /\ config_address_reg = bhist.pre.reg
       /\ pci_devices = bhist.pre.devs

\* A 2-byte write of non-zero bytes at 0xCFB, over an address register that
\* selects a child that is present.
C23_Witness ==
    /\ bhist.op = "write" /\ bhist.addr = PORT_CFB /\ bhist.len = 2
    /\ bhist.data[1] # 0
    /\ bhist.pre.reg # Zero32
    /\ ChildSelected

\* An entry of range map bus of kind io_type at base b belongs to a resource
\* of a registered descriptor and routes to its device.
Owned(bus, io_type, b) ==
    \E n \in DOMAIN devices :
      /\ devices[n].device = bus[b].dev
      /\ \E i \in 1..Len(devices[n].resource) :
           /\ devices[n].resource[i].res_type = io_type
           /\ devices[n].resource[i].addr = Some(b)
           /\ devices[n].resource[i].size = bus[b].size

\* C24: after any sequence of register_device and unregister_device calls,
\* failed ones included, every entry of the port and memory range maps
\* belongs to a PortIO/MemoryIO resource of a descriptor in the name registry
\* and routes to that descriptor's device.
C24_NoOrphanedEntries ==
    /\ \A b \in DOMAIN pio_bus : Owned(pio_bus, "Pio", b)
    /\ \A b \in DOMAIN mmio_bus : Owned(mmio_bus, "Mmio", b)

\* C25: unregister_device(e) for a device e that reports the name of a
\* registered device d, but is not d, removes neither d's descriptor nor d's
\* range-map entries nor d's allocator reservations.
C25_UnregisterNeedsSameHandle ==
    (hist.op = "unregister"
        /\ DevName(hist.dev) \in DOMAIN hist.pre.devices
        /\ hist.pre.devices[DevName(hist.dev)].device # hist.dev)
    => /\ devices = hist.pre.devices
       /\ pio_bus = hist.pre.pio_bus
       /\ mmio_bus = hist.pre.mmio_bus
       /\ resource = hist.pre.resource

====
